---- MODULE Spec2Model ----
(***************************************************************************)
(* xl2usernames: username candidates from the full names of a spreadsheet. *)
(*                                                                         *)
(* A Python str is modelled as a sequence of characters, each character a  *)
(* one-element token: "a", "B", " ", "\t", "\n", and "sz" for U+00DF       *)
(* (LATIN SMALL LETTER SHARP S), the one non-ASCII character of the model. *)
(*                                                                         *)
(* GenSpec calls generate_username_combinations on bounded inputs.         *)
(* Spec runs extract_names_from_excel from the read of the workbook to its *)
(* return or to sys.exit(1).                                               *)
(***************************************************************************)
EXTENDS Integers, Sequences, FiniteSets, TLC

VARIABLES
    full_name,      \* GenSpec: the name under test
    ret,            \* GenSpec: per variant of the name, what the call returned
    pc,             \* extract_names_from_excel: position in the function
    excel_file,     \* the workbook on disk: missing, corrupt, or its sheet
    column_name,    \* argument: the column asked for, <<>> for None
    output_dir,     \* os.path.dirname(output_file): "none", "present", "missing"
    df,             \* the DataFrame read from the workbook
    name_column,    \* position in df.columns of the column the names come from
    idx,            \* rows of df already iterated
    all_usernames,  \* the corpus accumulated so far
    files,          \* per destination, whether it was written and its text
    attempts        \* history of open() calls: <<destination, outcome>>

vars == <<full_name, ret, pc, excel_file, column_name, output_dir, df,
          name_column, idx, all_usernames, files, attempts>>

(***************************************************************************)
(* Bounds                                                                  *)
(***************************************************************************)
MaxLen == 4        \* longest raw string enumerated character by character
MaxTokens == 6     \* most tokens in a name built from Tokens
MaxRows == 2       \* most rows of the workbook

(***************************************************************************)
(* Characters and Python's str methods                                     *)
(***************************************************************************)
UpperLetters == <<"A","B","C","D","E","F","G","H","I","J","K","L","M",
                  "N","O","P","Q","R","S","T","U","V","W","X","Y","Z">>
LowerLetters == <<"a","b","c","d","e","f","g","h","i","j","k","l","m",
                  "n","o","p","q","r","s","t","u","v","w","x","y","z">>
Digits == <<"0","1","2","3","4","5","6","7","8","9">>

IndexIn(seq, c) == CHOOSE i \in 1..Len(seq) : seq[i] = c
IsIn(seq, c) == \E i \in 1..Len(seq) : seq[i] = c

\* str.isspace for one character
IsSpace(c) == c \in {" ", "\t", "\n"}

\* ord(c)
CodePoint(c) ==
    IF c = "\t" THEN 9
    ELSE IF c = "\n" THEN 10
    ELSE IF c = " " THEN 32
    ELSE IF IsIn(Digits, c) THEN 47 + IndexIn(Digits, c)
    ELSE IF IsIn(UpperLetters, c) THEN 64 + IndexIn(UpperLetters, c)
    ELSE IF IsIn(LowerLetters, c) THEN 96 + IndexIn(LowerLetters, c)
    ELSE 223  \* "sz", U+00DF

\* every character of the model
Chars ==
    {" ", "\t", "\n", "sz"} \cup {Digits[i] : i \in 1..10}
        \cup {UpperLetters[i] : i \in 1..26} \cup {LowerLetters[i] : i \in 1..26}

Ord == [c \in Chars |-> CodePoint(c)]

\* str.lower on one character: U+00DF is already lowercase
LowerChar(c) ==
    IF IsIn(UpperLetters, c) THEN LowerLetters[IndexIn(UpperLetters, c)] ELSE c

LowerTable == [c \in Chars |-> LowerChar(c)]

\* str.upper on one character: U+00DF has no single uppercase, it becomes "SS"
UpperChar(c) ==
    IF c = "sz" THEN <<"S", "S">>
    ELSE IF IsIn(LowerLetters, c) THEN <<UpperLetters[IndexIn(LowerLetters, c)]>>
    ELSE <<c>>

Lower(s) == [i \in 1..Len(s) |-> LowerTable[s[i]]]

RECURSIVE Upper(_)
Upper(s) == IF s = <<>> THEN <<>> ELSE UpperChar(Head(s)) \o Upper(Tail(s))

RECURSIVE LStrip(_)
LStrip(s) == IF s # <<>> /\ IsSpace(Head(s)) THEN LStrip(Tail(s)) ELSE s

RECURSIVE RStrip(_)
RStrip(s) ==
    IF s # <<>> /\ IsSpace(s[Len(s)]) THEN RStrip(SubSeq(s, 1, Len(s) - 1)) ELSE s

\* str.strip()
Strip(s) == RStrip(LStrip(s))

\* the longest whitespace-free prefix of s
RECURSIVE TakeWord(_)
TakeWord(s) ==
    IF s = <<>> \/ IsSpace(Head(s)) THEN <<>> ELSE <<Head(s)>> \o TakeWord(Tail(s))

\* str.split() with no separator: runs of whitespace separate, no empty item
RECURSIVE Split(_)
Split(s) ==
    LET t == LStrip(s) IN
    IF t = <<>> THEN <<>>
    ELSE LET w == TakeWord(t) IN <<w>> \o Split(SubSeq(t, Len(w) + 1, Len(t)))

\* ''.join(seq)
RECURSIVE Join(_)
Join(seq) == IF seq = <<>> THEN <<>> ELSE Head(seq) \o Join(Tail(seq))

\* x < y on Python strings: by code point, a proper prefix is smaller
RECURSIVE StrLess(_, _)
StrLess(x, y) ==
    IF y = <<>> THEN FALSE
    ELSE IF x = <<>> THEN TRUE
    ELSE IF Head(x) = Head(y) THEN StrLess(Tail(x), Tail(y))
    ELSE Ord[Head(x)] < Ord[Head(y)]

\* sorted(S) for a set of strings
RECURSIVE Sorted(_)
Sorted(S) ==
    IF S = {} THEN <<>>
    ELSE LET x == CHOOSE e \in S : TRUE
             below == {y \in S : StrLess(y, x)}
         IN Sorted(below) \o <<x>> \o Sorted(S \ (below \cup {x}))

Range(seq) == {seq[i] : i \in 1..Len(seq)}

(***************************************************************************)
(* generate_username_combinations                                          *)
(***************************************************************************)
\* str.split(' ')-like: every whitespace character separates, empty items kept
RECURSIVE SplitOnEach(_)
SplitOnEach(s) ==
    LET w == TakeWord(s) IN
    IF Len(w) = Len(s) THEN <<w>>
    ELSE <<w>> \o SplitOnEach(SubSeq(s, Len(w) + 2, Len(s)))

\* mutant of NameParts: full_name.lower().strip().split(' ')
NamePartsSplitOnEach(name) == SplitOnEach(Strip(Lower(name)))

\* mutant of NameParts: full_name.strip().split(), the lower() forgotten
NamePartsNoLower(name) == Split(Strip(name))

\* parts = full_name.lower().strip().split()
NameParts(name) == Split(Strip(Lower(name)))

\* mutant of SingleNames: the loop over the single parts dropped
SingleNamesDropped(parts) == {}

\* for part in parts: usernames.add(part)
SingleNames(parts) == {parts[i] : i \in 1..Len(parts)}

\* range(len(parts)) x range(i + 1, len(parts)): index pairs with i < j
IndexPairs(n) == {p \in (1..n) \X (1..n) : p[1] < p[2]}

\* mutant of TwoPart: only neighbouring parts are paired
TwoPartAdjacent(parts) ==
    UNION {{parts[i] \o parts[i + 1], parts[i + 1] \o parts[i]} :
             i \in 1..(Len(parts) - 1)}

\* mutant of TwoPart: for j in range(len(parts)), a part paired with itself too
TwoPartAnyJ(parts) ==
    {parts[i] \o parts[j] : i \in 1..Len(parts), j \in 1..Len(parts)}

\* usernames.add(parts[i] + parts[j]); usernames.add(parts[j] + parts[i])
TwoPart(parts) ==
    UNION {{parts[p[1]] \o parts[p[2]], parts[p[2]] \o parts[p[1]]} :
             p \in IndexPairs(Len(parts))}

\* mutant of Combinations3: permutations(range(len(parts)), 3)
Permutations3(n) ==
    {c \in (1..n) \X (1..n) \X (1..n) : c[1] # c[2] /\ c[2] # c[3] /\ c[1] # c[3]}

\* combinations(range(len(parts)), 3): index triples in increasing order
Combinations3(n) ==
    {c \in (1..n) \X (1..n) \X (1..n) : c[1] < c[2] /\ c[2] < c[3]}

ThreePart(parts) ==
    IF Len(parts) >= 3
    THEN {parts[c[1]] \o parts[c[2]] \o parts[c[3]] : c \in Combinations3(Len(parts))}
    ELSE {}

\* parts[0][0], parts[-1][0] and parts[1][0] raise IndexError on an empty part
IndexFails(parts) ==
    \/ Len(parts) >= 2 /\ (parts[1] = <<>> \/ parts[Len(parts)] = <<>>)
    \/ Len(parts) >= 3 /\ parts[2] = <<>>

\* mutant of FirstLetter: if len(parts) >= 1
FirstLetterFromOne(parts) ==
    IF Len(parts) >= 1
    THEN {<<parts[1][1]>> \o parts[Len(parts)],
          parts[1] \o <<parts[Len(parts)][1]>>}
    ELSE {}

\* parts[0][0] + parts[-1] and parts[0] + parts[-1][0]
FirstLetter(parts) ==
    IF Len(parts) >= 2
    THEN {<<parts[1][1]>> \o parts[Len(parts)],
          parts[1] \o <<parts[Len(parts)][1]>>}
    ELSE {}

\* parts[0] + parts[1][0] + parts[-1]
MiddleInitial(parts) ==
    IF Len(parts) >= 3
    THEN {parts[1] \o <<parts[2][1]>> \o parts[Len(parts)]}
    ELSE {}

\* ''.join(parts)
FullName(parts) == {Join(parts)}

\* the set usernames at the return statement
Usernames(parts) ==
    SingleNames(parts) \cup TwoPart(parts) \cup ThreePart(parts)
        \cup FirstLetter(parts) \cup MiddleInitial(parts) \cup FullName(parts)

\* mutant of generate_username_combinations: no early return on an empty parts
GenerateNoEarlyReturn(name) ==
    LET parts == NameParts(name) IN
    IF IndexFails(parts) THEN [exc |-> "IndexError", value |-> <<>>]
    ELSE [exc |-> "none", value |-> Sorted(Usernames(parts))]

\* The outcome of one call: exc is "none" when the call returned value.
generate_username_combinations(name) ==
    LET parts == NameParts(name) IN
    IF parts = <<>> THEN [exc |-> "none", value |-> <<>>]
    ELSE IF IndexFails(parts) THEN [exc |-> "IndexError", value |-> <<>>]
    ELSE [exc |-> "none", value |-> Sorted(Usernames(parts))]

(***************************************************************************)
(* GenSpec: the generator called on a name, on the name upper-cased and on *)
(* the name with blanks around it                                          *)
(***************************************************************************)
Alphabet == {" ", "\t", "a", "B", "sz"}
Tokens == {<<"a">>, <<"B", "o">>, <<"c", "d">>}

ShortStrings == UNION {[1..n -> Alphabet] : n \in 0..MaxLen}

\* the names of n tokens, separated by one blank
RECURSIVE TokenNamesOf(_)
TokenNamesOf(n) ==
    IF n = 1 THEN Tokens
    ELSE {t \o <<" ">> \o r : t \in Tokens, r \in TokenNamesOf(n - 1)}

TokenNames == UNION {TokenNamesOf(n) : n \in 1..MaxTokens}

Names == ShortStrings \cup TokenNames

Variants == {"plain", "upper", "padded"}

Argument(v, s) ==
    CASE v = "plain" -> s
      [] v = "upper" -> Upper(s)
      [] v = "padded" -> <<" ", " ">> \o s \o <<" ", " ">>

NotCalled == [exc |-> "not called", value |-> <<>>]

Destinations == <<"primary", "home", "temp">>

NoFile == [written |-> FALSE, text |-> <<>>]
NoSheet == [columns |-> <<>>, rows |-> <<>>]

\* extract_names_from_excel is not running
Idle ==
    /\ pc = "idle"
    /\ excel_file = [state |-> "missing"]
    /\ column_name = <<>>
    /\ output_dir = "none"
    /\ df = NoSheet
    /\ name_column = 0
    /\ idx = 0
    /\ all_usernames = {}
    /\ files = [d \in Range(Destinations) |-> NoFile]
    /\ attempts = <<>>

GenInit ==
    /\ full_name \in Names
    /\ ret = [v \in Variants |-> NotCalled]
    /\ Idle

Call(v) ==
    /\ ret[v] = NotCalled
    /\ ret' = [ret EXCEPT ![v] = generate_username_combinations(Argument(v, full_name))]
    /\ UNCHANGED <<full_name, pc, excel_file, column_name, output_dir, df,
                   name_column, idx, all_usernames, files, attempts>>

GenNext == \E v \in Variants : Call(v)

GenSpec == GenInit /\ [][GenNext]_vars

(***************************************************************************)
(* extract_names_from_excel                                                *)
(***************************************************************************)
\* Cells of a DataFrame: float NaN (an empty cell), None, a str, an int.
NaNCell == [t |-> "nan"]
NoneCell == [t |-> "none"]
StrCell(s) == [t |-> "str", s |-> s]
IntCell(n) == [t |-> "int", n |-> n]

\* str(row[name_column])
Str(cell) ==
    CASE cell.t = "nan" -> <<"n", "a", "n">>
      [] cell.t = "none" -> <<"N", "o", "n", "e">>
      [] cell.t = "int" -> <<Digits[cell.n + 1]>>
      [] cell.t = "str" -> cell.s

\* possible_columns
possible_columns ==
    { <<"n","a","m","e">>, <<"f","u","l","l"," ","n","a","m","e">>,
      <<"f","u","l","l","n","a","m","e">>, <<"f","u","l","l","_","n","a","m","e">>,
      <<"e","m","p","l","o","y","e","e">>, <<"u","s","e","r">> }

\* The workbooks enumerated: the headers, and the cells of the last column;
\* the cells of a column before it hold the row number.
Headers ==
    { <<>>,
      << <<"N","a","m","e">> >>,
      << <<"i","d">>, <<"F","u","l","l"," ","N","a","m","e">> >>,
      << <<"i","d">>, <<"d","e","p","t">> >> }

TextCells ==
    { NaNCell, NoneCell, StrCell(<<" ">>), StrCell(<<"a", " ", "B">>),
      StrCell(<<"B", "o", " ">>), StrCell(<<"N", "a", "n">>) }

CellColumns == UNION {[1..n -> TextCells] : n \in 0..MaxRows}

Sheet(h, cells) ==
    [columns |-> h,
     rows |-> IF h = <<>> THEN <<>>
              ELSE [r \in 1..Len(cells) |->
                      [k \in 1..Len(h) |-> IF k = Len(h) THEN cells[r] ELSE IntCell(r)]]]

Workbooks ==
    {[state |-> "missing"], [state |-> "corrupt"]}
        \cup {[state |-> "ok", sheet |-> Sheet(h, cells)] : h \in Headers, cells \in CellColumns}

ColumnArgs == {<<>>, <<"F","u","l","l"," ","N","a","m","e">>, <<"d","e","p","t">>}

Init ==
    /\ full_name = <<>>
    /\ ret = [v \in Variants |-> NotCalled]
    /\ pc = "read"
    /\ excel_file \in Workbooks
    /\ column_name \in ColumnArgs
    /\ output_dir \in {"none", "present", "missing"}
    /\ df = NoSheet
    /\ name_column = 0
    /\ idx = 0
    /\ all_usernames = {}
    /\ files = [d \in Range(Destinations) |-> NoFile]
    /\ attempts = <<>>

\* the loop over df.iterrows() goes on while rows are left
AfterRows(n) == IF n < Len(df.rows) THEN "rows" ELSE "mkdir"

\* df = pd.read_excel(excel_file): FileNotFoundError and any other exception
\* end in sys.exit(1)
ReadExcel ==
    /\ pc = "read"
    /\ IF excel_file.state = "ok"
       THEN df' = excel_file.sheet /\ pc' = "column"
       ELSE df' = df /\ pc' = "exit1"
    /\ UNCHANGED <<full_name, ret, excel_file, column_name, output_dir,
                   name_column, idx, all_usernames, files, attempts>>

ColumnIndex(name) == CHOOSE k \in 1..Len(df.columns) : df.columns[k] = name

\* the first col of df.columns with col.lower() in possible_columns, 0 if none
AutoDetect ==
    LET hits == {k \in 1..Len(df.columns) : Lower(df.columns[k]) \in possible_columns}
    IN IF hits = {} THEN 0 ELSE CHOOSE k \in hits : \A m \in hits : k <= m

\* The choice of name_column: 0 stands for the exits, sys.exit(1) on a
\* column_name that df does not have and IndexError on df.columns[0] of a
\* sheet with no column.
ChosenColumn ==
    IF column_name # <<>>
    THEN IF \E k \in 1..Len(df.columns) : df.columns[k] = column_name
         THEN ColumnIndex(column_name)
         ELSE 0
    ELSE IF AutoDetect # 0 THEN AutoDetect
    ELSE IF Len(df.columns) >= 1 THEN 1
    ELSE 0

SelectColumn ==
    /\ pc = "column"
    /\ name_column' = ChosenColumn
    /\ pc' = IF ChosenColumn = 0 THEN "exit1" ELSE AfterRows(0)
    /\ UNCHANGED <<full_name, ret, excel_file, column_name, output_dir, df,
                   idx, all_usernames, files, attempts>>

\* mutant of Skipped: the comparison made without lower()
SkippedCaseSensitive(name) ==
    ~(name # <<>> /\ name \notin {<<"n","a","n">>, <<"n","o","n","e">>, <<>>})

\* not (name and name.lower() not in ['nan', 'none', ''])
Skipped(name) ==
    ~(name # <<>> /\ Lower(name) \notin {<<"n","a","n">>, <<"n","o","n","e">>, <<>>})

\* one turn of the loop over df.iterrows()
ProcessRow ==
    /\ pc = "rows"
    /\ idx < Len(df.rows)
    /\ LET name == Strip(Str(df.rows[idx + 1][name_column]))
           usernames == generate_username_combinations(name)
       IN IF Skipped(name)
          THEN all_usernames' = all_usernames /\ pc' = AfterRows(idx + 1)
          ELSE IF usernames.exc # "none"
          THEN all_usernames' = all_usernames /\ pc' = "exit1"
          ELSE /\ all_usernames' = all_usernames \cup Range(usernames.value)
               /\ pc' = AfterRows(idx + 1)
    /\ idx' = idx + 1
    /\ UNCHANGED <<full_name, ret, excel_file, column_name, output_dir, df,
                   name_column, files, attempts>>

\* if output_dir and not os.path.exists(output_dir): os.makedirs(...), which
\* creates the directory or raises (to the outer handler, sys.exit(1))
EnsureOutputDir ==
    /\ pc = "mkdir"
    /\ IF output_dir = "missing"
       THEN \E outcome \in {"ok", "PermissionError"} :
               IF outcome = "ok"
               THEN output_dir' = "present" /\ pc' = "primary"
               ELSE output_dir' = output_dir /\ pc' = "exit1"
       ELSE output_dir' = output_dir /\ pc' = "primary"
    /\ UNCHANGED <<full_name, ret, excel_file, column_name, df, name_column,
                   idx, all_usernames, files, attempts>>

\* for username in sorted(all_usernames): f.write(username + '\n')
RECURSIVE WriteLines(_)
WriteLines(seq) ==
    IF seq = <<>> THEN <<>> ELSE Head(seq) \o <<"\n">> \o WriteLines(Tail(seq))

FileText(usernames) == WriteLines(Sorted(usernames))

\* What open(path, 'w') and the writes do: succeed, raise PermissionError, or
\* raise another OSError (the path is a directory, a read-only file system).
OpenOutcomes == {"ok", "PermissionError", "OSError"}

\* mutant of FallsBack: except Exception in place of except PermissionError
FallsBackOnAny(dest, outcome) == outcome # "ok" /\ dest # "temp"

\* the except PermissionError clauses around the primary and the home write;
\* nothing is around the write to the temp directory
FallsBack(dest, outcome) == outcome = "PermissionError" /\ dest # "temp"

NextDestination(dest) == IF dest = "primary" THEN "home" ELSE "temp"

\* one with open(...) block: the primary path, the home fallback, the temp one
WriteTo(dest) ==
    /\ pc = dest
    /\ \E outcome \in OpenOutcomes :
         /\ attempts' = Append(attempts, <<dest, outcome>>)
         /\ IF outcome = "ok"
            THEN /\ files' = [files EXCEPT ![dest] =
                                 [written |-> TRUE, text |-> FileText(all_usernames)]]
                 /\ pc' = "returned"
            ELSE /\ files' = files
                 /\ pc' = IF FallsBack(dest, outcome) THEN NextDestination(dest)
                          ELSE "exit1"
    /\ UNCHANGED <<full_name, ret, excel_file, column_name, output_dir, df,
                   name_column, idx, all_usernames>>

Next ==
    \/ ReadExcel
    \/ SelectColumn
    \/ ProcessRow
    \/ EnsureOutputDir
    \/ \E dest \in Range(Destinations) : WriteTo(dest)

Spec == Init /\ [][Next]_vars

(***************************************************************************)
(* Claims about generate_username_combinations (checked under GenSpec)     *)
(***************************************************************************)
Returned(v) == ret[v] # NotCalled
Arg(v) == Argument(v, full_name)
Result(v) == Range(ret[v].value)

\* The tokens of a string, stated without the code's split: a token starts
\* at a non-blank position that is first or follows a blank, and runs to the
\* last position before the next blank.
TokenStarts(s) ==
    {i \in 1..Len(s) : ~IsSpace(s[i]) /\ (i = 1 \/ IsSpace(s[i - 1]))}

TokenEnd(s, i) ==
    CHOOSE j \in i..Len(s) :
        /\ j = Len(s) \/ IsSpace(s[j + 1])
        /\ \A k \in i..j : ~IsSpace(s[k])

TokensOf(s) ==
    LET low == Lower(s)
        starts == TokenStarts(low)
    IN [m \in 1..Cardinality(starts) |->
          LET i == CHOOSE r \in starts :
                     Cardinality({t \in starts : t < r}) = m - 1
          IN SubSeq(low, i, TokenEnd(low, i))]

Blank(s) == \A k \in 1..Len(s) : IsSpace(s[k])

First(p) == <<p[1]>>

\* The union of the six rules, as the specification words them.
RuleSingles(parts) == {parts[i] : i \in 1..Len(parts)}
RulePairs(parts) ==
    {parts[q[1]] \o parts[q[2]] :
        q \in {r \in (1..Len(parts)) \X (1..Len(parts)) : r[1] # r[2]}}
RuleTriples(parts) ==
    {parts[q[1]] \o parts[q[2]] \o parts[q[3]] :
        q \in {r \in (1..Len(parts)) \X (1..Len(parts)) \X (1..Len(parts)) :
                 r[1] < r[2] /\ r[2] < r[3]}}
RuleInitials(parts) ==
    IF Len(parts) >= 2
    THEN {First(parts[1]) \o parts[Len(parts)], parts[1] \o First(parts[Len(parts)])}
    ELSE {}
RuleMiddle(parts) ==
    IF Len(parts) >= 3
    THEN {parts[1] \o First(parts[2]) \o parts[Len(parts)]}
    ELSE {}
RuleFull(parts) == {Join(parts)}
RuleUnion(parts) ==
    RuleSingles(parts) \cup RulePairs(parts) \cup RuleTriples(parts)
        \cup RuleInitials(parts) \cup RuleMiddle(parts) \cup RuleFull(parts)

\* C1: for a name of n >= 1 parts the call returns exactly the union of the
\* rules: every part, both orders of every pair i < j, every in-order triple,
\* the two initial forms, the middle-initial form and the full concatenation.
C1_ExactUnion ==
    \A v \in Variants :
        LET parts == TokensOf(Arg(v)) IN
        (Returned(v) /\ Len(parts) >= 1) =>
            /\ ret[v].exc = "none"
            /\ Result(v) = RuleUnion(parts)

\* a four-part name was generated, with a pair of non-adjacent parts and an
\* in-order triple that is not the whole name among the candidates
C1_Witness ==
    /\ Returned("plain")
    /\ full_name = <<"a", " ", "B", "o", " ", "c", "d", " ", "B", "o">>
    /\ <<"a", "c", "d">> \in Result("plain")
    /\ <<"a", "c", "d", "b", "o">> \in Result("plain")

\* C2: an empty or all-whitespace input yields an empty result, not even
\* the empty string.
C2_BlankIsEmpty ==
    \A v \in Variants :
        (Returned(v) /\ Blank(Arg(v))) => ret[v] = [exc |-> "none", value |-> <<>>]

C2_Witness ==
    /\ full_name = <<" ", "\t">>
    /\ Returned("plain") /\ Returned("padded")
    /\ ret["plain"].value = <<>>

\* C3: an input of exactly one token, whatever blanks surround it and
\* whatever its case, yields exactly the one-element result {lowercased token}.
C3_SingleToken ==
    \A v \in Variants :
        (Returned(v) /\ Cardinality(TokenStarts(Arg(v))) = 1) =>
            LET i == CHOOSE r \in TokenStarts(Arg(v)) : TRUE
            IN ret[v] = [exc |-> "none",
                         value |-> <<Lower(SubSeq(Arg(v), i, TokenEnd(Arg(v), i)))>>]

C3_Witness ==
    /\ full_name = <<"\t", "B", "a", " ">>
    /\ Returned("plain")
    /\ ret["plain"].value = << <<"b", "a">> >>

AllReturned == \A v \in Variants : Returned(v)

\* C4 as claimed: the name, the name upper-cased and the name with blanks
\* around it give the same result, for every input string.
C4_Original ==
    AllReturned => (ret["plain"] = ret["upper"] /\ ret["plain"] = ret["padded"])

\* C4 as amended: the name and the name with blanks around it always give the
\* same result; the upper-cased name gives the same result whenever
\* lower-casing the upper-cased name gives the lower-cased name (every ASCII
\* name does; U+00DF, whose upper case is "SS", does not).
C4_CaseAndBlanks ==
    /\ (Returned("plain") /\ Returned("padded")) => ret["plain"] = ret["padded"]
    /\ (Returned("plain") /\ Returned("upper")
            /\ Lower(Upper(full_name)) = Lower(full_name))
         => ret["plain"] = ret["upper"]

C4_Witness ==
    /\ full_name = <<"a", " ", "B">>
    /\ AllReturned
    /\ ret["upper"] = ret["plain"]
    /\ ret["padded"] = ret["plain"]
    /\ Len(ret["plain"].value) > 2

\* position triples that are not in strictly increasing order
OutOfOrder(n) ==
    {c \in (1..n) \X (1..n) \X (1..n) : ~(c[1] < c[2] /\ c[2] < c[3])}

\* C5: the three-part rule keeps the parts in their original order: every
\* in-order triple is a candidate, and three parts concatenated in another
\* position order are a candidate only when that string is also the outcome
\* of another rule or of an in-order triple.
C5_TriplesInOrder ==
    \A v \in Variants :
        LET parts == TokensOf(Arg(v)) IN
        (Returned(v) /\ Len(parts) >= 3) =>
            /\ RuleTriples(parts) \subseteq Result(v)
            /\ {parts[c[1]] \o parts[c[2]] \o parts[c[3]] :
                    c \in OutOfOrder(Len(parts))} \cap Result(v)
                 \subseteq RuleTriples(parts) \cup RuleSingles(parts)
                             \cup RulePairs(parts) \cup RuleInitials(parts)
                             \cup RuleMiddle(parts) \cup RuleFull(parts)

\* "a Bo cd": abocd is a candidate, cdboa is not
C5_Witness ==
    /\ full_name = <<"a", " ", "B", "o", " ", "c", "d">>
    /\ Returned("plain")
    /\ <<"a", "b", "o", "c", "d">> \in Result("plain")
    /\ <<"c", "d", "b", "o", "a">> \notin Result("plain")

\* C6: the call never raises, and no name part is an empty string.
C6_Total ==
    \A v \in Variants :
        Returned(v) =>
            /\ ret[v].exc = "none"
            /\ \A i \in 1..Len(NameParts(Arg(v))) : NameParts(Arg(v))[i] # <<>>

\* a name with a run of two whitespace characters inside returned normally
C6_Witness ==
    /\ full_name = <<"a", " ", "\t", "B">>
    /\ Returned("plain")
    /\ ret["plain"].exc = "none"
    /\ Len(ret["plain"].value) = 4

\* C7 as claimed: for a name of n = 1..6 tokens, equal tokens included, the
\* number of candidates is at least n.
C7_Original ==
    \A v \in Variants :
        LET n == Len(TokensOf(Arg(v))) IN
        (Returned(v) /\ n >= 1 /\ n <= 6) => Len(ret[v].value) >= n

\* C7 as amended: the number of candidates is at least the number of distinct
\* tokens and at least min(n, 4); so it is at least n when n <= 4 or when the
\* tokens are pairwise distinct.
C7_AtLeastLinear ==
    \A v \in Variants :
        LET parts == TokensOf(Arg(v))
            n == Len(parts)
        IN (Returned(v) /\ n >= 1) =>
              /\ Len(ret[v].value) >= Cardinality({parts[i] : i \in 1..n})
              /\ Len(ret[v].value) >= (IF n <= 4 THEN n ELSE 4)

\* five equal tokens give four candidates
C7_Witness ==
    /\ full_name = <<"a", " ", "a", " ", "a", " ", "a", " ", "a">>
    /\ Returned("plain")
    /\ Len(ret["plain"].value) = 4

Choose3(n) == (n * (n - 1) * (n - 2)) \div 6

\* C8: for a name of n = 1..6 tokens the number of candidates is at most
\* n + n(n-1) + C(n,3) + 4.
C8_AtMostPolynomial ==
    \A v \in Variants :
        LET n == Len(TokensOf(Arg(v))) IN
        (Returned(v) /\ n >= 1 /\ n <= 6) =>
            Len(ret[v].value) <= n + n * (n - 1) + Choose3(n) + 4

\* a name of six tokens with 32 candidates
C8_Witness ==
    /\ Returned("plain")
    /\ Len(TokensOf(full_name)) = 6
    /\ Len(ret["plain"].value) = 32

(***************************************************************************)
(* Claims about extract_names_from_excel (checked under Spec)              *)
(***************************************************************************)
Rejected(k) == attempts[k][2] # "ok"

InFixedOrder ==
    /\ Len(attempts) <= Len(Destinations)
    /\ \A k \in 1..Len(attempts) : attempts[k][1] = Destinations[k]

\* C9 as claimed: the destinations are tried in the order primary, home,
\* temp; a later one only after every earlier one was rejected; writing stops
\* at the first success; and a failure of the write (exit status 1) is
\* surfaced only if every one of the three destinations was rejected.
C9_Original ==
    /\ InFixedOrder
    /\ \A k \in 1..Len(attempts) : \A m \in 1..(k - 1) : Rejected(m)
    /\ pc = "returned" => (attempts # <<>> /\ ~Rejected(Len(attempts)))
    /\ (pc = "exit1" /\ attempts # <<>>) =>
          (Len(attempts) = 3 /\ \A k \in 1..3 : Rejected(k))

\* C9 as amended: the destinations are tried in the order primary, home,
\* temp; a later one only after every earlier one raised PermissionError;
\* writing stops at the first success, and only the destination that
\* succeeded is written; a failure of the write is surfaced when all three
\* destinations were rejected, or as soon as one destination fails with an
\* error other than PermissionError, the later destinations left untried.
C9_FallbackOnPermissionError ==
    /\ InFixedOrder
    /\ \A k \in 1..(Len(attempts) - 1) : attempts[k][2] = "PermissionError"
    /\ pc = "returned" <=> (attempts # <<>> /\ ~Rejected(Len(attempts)))
    /\ \A d \in Range(Destinations) :
          files[d].written <=> (pc = "returned" /\ attempts[Len(attempts)][1] = d)
    /\ (pc = "exit1" /\ attempts # <<>>) =>
          /\ Rejected(Len(attempts))
          /\ Len(attempts) = 3 \/ attempts[Len(attempts)][2] # "PermissionError"
    /\ (Len(attempts) = 3 /\ \A k \in 1..3 : Rejected(k)) => pc = "exit1"

\* all three destinations were tried and rejected, and the run ended in exit 1
C9_Witness ==
    /\ pc = "exit1"
    /\ Len(attempts) = 3
    /\ \A k \in 1..3 : Rejected(k)

\* x sorts strictly before y: at the first position where they differ x has
\* the smaller code point, or x is a proper prefix of y
LexBefore(x, y) ==
    \E k \in 1..(Len(x) + 1) :
        /\ k <= Len(y)
        /\ \A m \in 1..(k - 1) : x[m] = y[m]
        /\ k = Len(x) + 1 \/ Ord[x[k]] < Ord[y[k]]

\* the lines of a text, each ended by "\n"
LinesOf(text) ==
    LET ends == {i \in 1..Len(text) : text[i] = "\n"}
        EndOf(m) == CHOOSE e \in ends : Cardinality({t \in ends : t < e}) = m - 1
    IN [m \in 1..Cardinality(ends) |->
          SubSeq(text, IF m = 1 THEN 1 ELSE EndOf(m - 1) + 1, EndOf(m) - 1)]

\* the value of row r in the name column, trimmed
Trimmed(r) == Strip(Str(df.rows[r][name_column]))

\* a row is left out when its trimmed value is empty, or is nan or none in
\* any letter case
LeftOut(r) ==
    \/ Trimmed(r) = <<>>
    \/ Lower(Trimmed(r)) \in {<<"n", "a", "n">>, <<"n", "o", "n", "e">>}

\* C10: the corpus written is the lexicographically sorted, duplicate-free
\* union of the candidates of exactly the rows that are not left out, one
\* candidate per line.
C10_Corpus ==
    pc = "returned" =>
        LET text == files[attempts[Len(attempts)][1]].text
            lines == LinesOf(text)
        IN /\ text = <<>> \/ text[Len(text)] = "\n"
           /\ \A m \in 1..(Len(lines) - 1) : LexBefore(lines[m], lines[m + 1])
           /\ Range(lines) =
                UNION {Range(generate_username_combinations(Trimmed(r)).value) :
                         r \in {q \in 1..Len(df.rows) : ~LeftOut(q)}}

\* a None cell left out and the name "a B" written with all its candidates
C10_Witness ==
    /\ pc = "returned"
    /\ Len(df.rows) = 2
    /\ df.rows[1][name_column] = NoneCell
    /\ df.rows[2][name_column] = StrCell(<<"a", " ", "B">>)
    /\ files["home"].text =
          <<"a", "\n", "a", "b", "\n", "b", "\n", "b", "a", "\n">>

====
